---- MODULE Spec2Model ----
(***************************************************************************)
(* A model of csep/core/catalogs.py: the catalog objects (BaseCatalog and  *)
(* its variants CSEPCatalog, UCERF3Catalog, ComcatCatalog), the record     *)
(* sequences they reference on the heap, the filter mini-language, the     *)
(* ComcatCatalog time window, and the generator UCERF3Catalog.load_catalogs*)
(* reading a merged binary file.                                           *)
(*                                                                         *)
(* Numbers: magnitudes and filter thresholds are in tenths (4.0 is 40);    *)
(* datetimes are records [some, s] holding whole UTC seconds; epoch times  *)
(* are milliseconds; file positions are bytes.                             *)
(***************************************************************************)
EXTENDS Integers, Sequences, FiniteSets, TLC

VARIABLES cats, heap, loads, result, file, gen, handles, yielded

vars == <<cats, heap, loads, result, file, gen, handles, yielded>>

(***************************************************************************)
(* Bounds of the model.                                                    *)
(***************************************************************************)
MaxRows == 3
MaxLoads == 2
MaxSims == 2
MaxSize == 2

(***************************************************************************)
(* Values.                                                                 *)
(***************************************************************************)
Cats == {"a", "b"}
Variants == {"CSEP", "UCERF3", "Comcat"}
None == "None"
Unset == "unset"
CallerArray == "A"
CallerList == "L"
Fresh == <<"r1", "r2", "r3", "r4">>
Refs == {CallerArray, CallerList} \cup {Fresh[i] : i \in DOMAIN Fresh}

\* Magnitudes of the caller's rows, in tenths.
Mags == {30, 55}

\* Python's None and a datetime, as one record shape.
NoTime == [some |-> FALSE, s |-> 0]
Time(k) == [some |-> TRUE, s |-> k]
NoNum == [some |-> FALSE, v |-> 0]
Num(k) == [some |-> TRUE, v |-> k]

FreeObj == [kind |-> "free", dtype |-> {}, rows |-> <<>>]
NdArray(dt, rs) == [kind |-> "ndarray", dtype |-> dt, rows |-> rs]
List(rs) == [kind |-> "list", dtype |-> {}, rows |-> rs]

event_dtype == {"rupture_id", "magnitude"}
comcat_dtype == {"id", "epoch_time", "magnitude"}

NoCatalog ==
    [state |-> "none", variant |-> None, filename |-> Unset, catalog_id |-> Unset,
     format |-> Unset, name |-> Unset, catalog |-> None,
     start_time |-> NoTime, end_time |-> NoTime, deferred |-> FALSE]

MetaNames == {"filename", "catalog_id", "format", "name"}

\* What a constructor call was given: the time window, the load mode and, for each
\* metadata keyword, the value passed (Unset where the caller passed none).
CallArgs(variant, a, kw, remote_ok) ==
    [variant |-> variant, start_time |-> a.start_time, end_time |-> a.end_time,
     start_epoch |-> a.start_epoch, duration_in_years |-> a.duration_in_years,
     lazy_load |-> kw.lazy_load, remote_ok |-> remote_ok,
     supplied |-> [f \in MetaNames |-> IF f \in kw.given THEN kw[f] ELSE Unset]]

NoWindow == [start_time |-> NoTime, end_time |-> NoTime, start_epoch |-> NoNum,
             duration_in_years |-> NoNum]

NoArgs == CallArgs(None, NoWindow, [given |-> {}, lazy_load |-> TRUE], TRUE)

NoStmt == [name |-> "", type |-> "", value |-> [int |-> 0, frac |-> 0]]

Stmt(name, type, value) == [name |-> name, type |-> type, value |-> value]

Result(op, c, status) ==
    [op |-> op, cat |-> c, status |-> status, ret |-> None, num |-> 0, seq |-> <<>>,
     args |-> NoArgs, stmt |-> NoStmt]

(***************************************************************************)
(* Time utilities (csep.utils.time) and the float32 columns.               *)
(***************************************************************************)
MillisPerSecond == 1000
SecondsPerYear == 31557600
Float32Mantissa == 16777216

epoch_time_to_utc_datetime(ms) == Time(ms \div MillisPerSecond)
datetime_to_utc_epoch(dt) == dt.s * MillisPerSecond
timedelta_from_years(y) == y * SecondsPerYear

RECURSIVE Spacing(_)
Spacing(x) == IF x < Float32Mantissa THEN 1 ELSE 2 * Spacing(x \div 2)

\* Round a non-negative number to the nearest float32 (ties to even).
Float32(x) ==
    LET sp == Spacing(x)
        q == x \div sp
        r == x % sp
    IN  IF 2 * r < sp THEN q * sp
        ELSE IF 2 * r > sp THEN (q + 1) * sp
        ELSE IF q % 2 = 0 THEN q * sp ELSE (q + 1) * sp

(***************************************************************************)
(* The heap: record sequences are objects; a catalog holds a reference.    *)
(***************************************************************************)
Len0(h, ref) == Len(h[ref].rows)

FreeRefs(h) == {i \in DOMAIN Fresh : h[Fresh[i]].kind = "free"}

Alloc(h) == Fresh[CHOOSE i \in FreeRefs(h) : \A j \in FreeRefs(h) : i <= j]

\* An object no catalog references any more is reclaimed; the caller keeps its own two.
Collect(h, cs) ==
    [r \in Refs |->
        IF r \in {CallerArray, CallerList} \/ (\E c \in Cats : cs[c].catalog = r)
        THEN h[r] ELSE FreeObj]

\* ComcatCatalog._get_catalog_as_ndarray: one fixed row per event object.
comcat_row(event) ==
    [id |-> event.id,
     epoch_time |-> Float32(datetime_to_utc_epoch(event.time)),
     magnitude |-> Float32(event.magnitude)]

get_catalog_as_ndarray(events) ==
    NdArray(comcat_dtype, [i \in 1 .. Len(events) |-> comcat_row(events[i])])

\* The catalog setter: the outcome of self.catalog = val, val being None or a reference.
Setter(h, variant, val) ==
    IF val = None THEN [heap |-> h, stored |-> None, status |-> "ok"]
    ELSE IF h[val].kind = "ndarray" THEN [heap |-> h, stored |-> val, status |-> "ok"]
    ELSE IF variant = "Comcat"
         THEN LET r == Alloc(h)
              IN  [heap |-> [h EXCEPT ![r] = get_catalog_as_ndarray(h[val].rows)],
                   stored |-> r, status |-> "ok"]
         ELSE [heap |-> h, stored |-> val, status |-> "AttributeError"]

\* A keyword argument as the callee sees it: the value given, or the default None.
Arg(kw, f) == IF f \in kw.given THEN kw[f] ELSE None

\* load_catalog on obj; remote is what the search collaborator answers.
LoadCatalogOut(h, obj, remote) ==
    IF obj.variant # "Comcat"
    THEN [heap |-> h, obj |-> obj, status |-> "NotImplementedError"]
    ELSE IF ~remote.ok
    THEN [heap |-> h, obj |-> obj, status |-> "ExternalServiceError"]
    ELSE LET r == Alloc(h)
             set == Setter([h EXCEPT ![r] = List(remote.events)], obj.variant, r)
         IN  [heap |-> set.heap, obj |-> [obj EXCEPT !.catalog = set.stored],
              status |-> set.status]

\* BaseCatalog.__init__ on an object whose subclass fields are already set.
BaseInitOut(h, obj, kw, remote) ==
    LET o1 == [obj EXCEPT !.filename = Arg(kw, "filename"),
                          !.catalog_id = Arg(kw, "catalog_id"),
                          !.format = Arg(kw, "format"),
                          !.name = Arg(kw, "name"),
                          !.deferred = (kw.lazy_load /\ Arg(kw, "catalog") = None)]
        set == Setter(h, obj.variant, Arg(kw, "catalog"))
        o2 == [o1 EXCEPT !.catalog = set.stored]
    IN  IF set.status # "ok"
        THEN [status |-> set.status, obj |-> o2, heap |-> set.heap, loaded |-> 0]
        ELSE IF ~kw.lazy_load /\ o2.catalog = None
        THEN LET ld == LoadCatalogOut(set.heap, o2, remote)
             IN  [status |-> ld.status, obj |-> ld.obj, heap |-> ld.heap, loaded |-> 1]
        ELSE [status |-> "ok", obj |-> o2, heap |-> set.heap, loaded |-> 0]

\* The keywords a call passes, less those in names.
Without(kw, names) == [kw EXCEPT !.given = @ \ names]

\* CSEPCatalog.__init__: the signature has no name parameter; the body sets three
\* fields and runs the setter; format and lazy_load are accepted and not used.
CSEPInitOut(h, obj, kw) ==
    LET set == Setter(h, obj.variant, Arg(kw, "catalog"))
    IN  IF "name" \in kw.given
        THEN [status |-> "TypeError", obj |-> obj, heap |-> h, loaded |-> 0]
        ELSE
        [status |-> set.status,
         obj |-> [obj EXCEPT !.filename = Arg(kw, "filename"),
                             !.catalog_id = Arg(kw, "catalog_id"),
                             !.catalog = set.stored,
                             !.deferred = (kw.lazy_load /\ Arg(kw, "catalog") = None)],
         heap |-> set.heap, loaded |-> 0]

\* The time window of ComcatCatalog.__init__.
WindowError(a) ==
    IF ~a.start_time.some /\ ~a.start_epoch.some THEN "ValueError"
    ELSE IF ~a.end_time.some /\ ~a.duration_in_years.some THEN "ValueError"
    ELSE "ok"

\* A resolution in which the epoch wins over the explicit start.
ResolveStartEpochFirst(a) ==
    IF a.start_epoch.some THEN epoch_time_to_utc_datetime(a.start_epoch.v)
    ELSE a.start_time

ResolveStart(a) ==
    IF a.start_time.some THEN a.start_time
    ELSE epoch_time_to_utc_datetime(a.start_epoch.v)

ResolveEnd(a) ==
    IF a.end_time.some THEN a.end_time
    ELSE Time(ResolveStart(a).s + timedelta_from_years(a.duration_in_years.v))

\* ComcatCatalog.__init__: catalog_id is a parameter of its own (default 'Comcat');
\* the remaining keywords go on to BaseCatalog.__init__.
ComcatInitOut(h, obj, a, kw, remote) ==
    LET catalog_id == IF "catalog_id" \in kw.given THEN kw.catalog_id ELSE "Comcat"
        kwargs == Without(kw, {"catalog_id"})
        o1 == [obj EXCEPT !.catalog_id = catalog_id]
    IN  IF WindowError(a) # "ok"
        THEN [status |-> WindowError(a), obj |-> o1, heap |-> h, loaded |-> 0]
        ELSE LET o2 == [o1 EXCEPT !.start_time = ResolveStart(a),
                                  !.end_time = ResolveEnd(a)]
             IN  IF o2.start_time.s > o2.end_time.s
                 THEN [status |-> "ValueError", obj |-> o2, heap |-> h, loaded |-> 0]
                 ELSE BaseInitOut(h, o2, kwargs, remote)

\* A constructor's outcome applied to slot c: the object exists only if none was raised.
Constructed(c, out, a) ==
    /\ cats' = IF out.status = "ok"
               THEN [cats EXCEPT ![c] = [out.obj EXCEPT !.state = "live"]]
               ELSE cats
    /\ heap' = Collect(out.heap, cats')
    /\ loads' = [loads EXCEPT ![c] = @ + out.loaded]
    /\ result' = [Result("init", c, out.status) EXCEPT !.args = a]
    /\ UNCHANGED <<file, gen, handles, yielded>>

New(variant) == [NoCatalog EXCEPT !.variant = variant]

CSEPInit(c, kw) ==
    /\ cats[c].state = "none"
    /\ Constructed(c, CSEPInitOut(heap, New("CSEP"), kw),
                   CallArgs("CSEP", NoWindow, kw, TRUE))

NoRemote == [ok |-> FALSE, events |-> <<>>]

UCERF3Init(c, kw) ==
    /\ cats[c].state = "none"
    /\ loads[c] < MaxLoads
    /\ Constructed(c, BaseInitOut(heap, New("UCERF3"), kw, NoRemote),
                   CallArgs("UCERF3", NoWindow, kw, TRUE))

ComcatInit(c, a, kw, remote) ==
    /\ cats[c].state = "none"
    /\ loads[c] < MaxLoads
    /\ Constructed(c, ComcatInitOut(heap, New("Comcat"), a, kw, remote),
                   CallArgs("Comcat", a, kw, remote.ok))

(***************************************************************************)
(* Operations on a constructed catalog.                                    *)
(***************************************************************************)
\* The property getter: returns what is stored, nothing else.
GetCatalog(c) ==
    /\ cats[c].state = "live"
    /\ cats' = cats
    /\ result' = Result("get", c, "ok")
    /\ UNCHANGED <<heap, loads, file, gen, handles, yielded>>

\* Direct assignment cat.catalog = val.
SetCatalog(c, val) ==
    /\ cats[c].state = "live"
    /\ LET set == Setter(heap, cats[c].variant, val)
       IN  /\ cats' = [cats EXCEPT ![c].catalog = set.stored]
           /\ heap' = Collect(set.heap, cats')
           /\ result' = Result("set", c, set.status)
    /\ UNCHANGED <<loads, file, gen, handles, yielded>>

\* An explicit call of load_catalog.
LoadCatalog(c, remote) ==
    /\ cats[c].state = "live"
    /\ loads[c] < MaxLoads
    /\ LET ld == LoadCatalogOut(heap, cats[c], remote)
       IN  /\ cats' = [cats EXCEPT ![c] = ld.obj]
           /\ heap' = Collect(ld.heap, cats')
           /\ result' = Result("load", c, ld.status)
    /\ loads' = [loads EXCEPT ![c] = @ + 1]
    /\ UNCHANGED <<file, gen, handles, yielded>>

number_of_events(h, obj) == IF obj.catalog # None THEN Len0(h, obj.catalog) ELSE 0

Ones(n) == [i \in 1 .. n |-> 1]

\* A running sum that leaves the current element out: 0, 1, ..., N - 1.
CumSumExclusive(xs) == [i \in 1 .. Len(xs) |-> i - 1]

RECURSIVE CumSum(_)
CumSum(xs) ==
    IF xs = <<>> THEN <<>>
    ELSE LET init == CumSum(SubSeq(xs, 1, Len(xs) - 1))
         IN  Append(init, (IF init = <<>> THEN 0 ELSE init[Len(init)]) + xs[Len(xs)])

GetNumberOfEvents(c) ==
    /\ cats[c].state = "live"
    /\ cats' = cats
    /\ result' = [Result("count", c, "ok") EXCEPT !.num = number_of_events(heap, cats[c])]
    /\ UNCHANGED <<heap, loads, file, gen, handles, yielded>>

GetCumulativeNumberOfEvents(c) ==
    /\ cats[c].state = "live"
    /\ cats' = cats
    /\ result' = [Result("cumulative", c, "ok") EXCEPT
                     !.seq = CumSum(Ones(number_of_events(heap, cats[c])))]
    /\ UNCHANGED <<heap, loads, file, gen, handles, yielded>>

\* The operator table of filter.
Operators == {">", "<", ">=", "<=", "=="}

\* An operator table whose ">=" and "<=" entries are the strict comparisons.
CompareStrict(type, a, b) ==
    CASE type = ">" -> a > b
      [] type = "<" -> a < b
      [] type = ">=" -> a > b
      [] type = "<=" -> a < b
      [] type = "==" -> a = b

Compare(type, a, b) ==
    CASE type = ">" -> a > b
      [] type = "<" -> a < b
      [] type = ">=" -> a >= b
      [] type = "<=" -> a <= b
      [] type = "==" -> a = b

\* float(value) of a decimal literal int.frac, in tenths.
Float(lit) == lit.int * 10 + lit.frac

\* numpy.where on the comparison: the matching positions, ascending.
Where(rows, name, type, v) ==
    SelectSeq([i \in 1 .. Len(rows) |-> i], LAMBDA i : Compare(type, rows[i][name], v))

\* Indexing that writes the selection over the indexed object instead of copying.
InPlaceArray(h, ref, value) == [heap |-> [h EXCEPT ![ref] = value], ref |-> ref]

\* Indexing with an index array copies: the result is a new object, ref is left as it was.
NewArray(h, ref, value) == [heap |-> [h EXCEPT ![Alloc(h)] = value], ref |-> Alloc(h)]

\* catalog[idx]: a new array holding the rows at the positions idx, in that order.
FancyIndex(arr, idx) == [arr EXCEPT !.rows = [k \in 1 .. Len(idx) |-> arr.rows[idx[k]]]]

\* What line 148 raises before anything is assigned, or "ok".
FilterStatus(h, obj, name, type) ==
    IF type \notin Operators THEN "KeyError"
    ELSE IF obj.catalog = None THEN "TypeError"
    ELSE IF h[obj.catalog].kind # "ndarray" THEN "TypeError"
    ELSE IF name \notin h[obj.catalog].dtype THEN "ValueError"
    ELSE "ok"

\* The success path of filter: lines 148 to 151.
FilterApply(c, name, type, value) ==
    LET arr == heap[cats[c].catalog]
        idx == Where(arr.rows, name, type, Float(value))
        new == NewArray(heap, cats[c].catalog, FancyIndex(arr, idx))
        set == Setter(new.heap, cats[c].variant, new.ref)
    IN  /\ cats' = [cats EXCEPT ![c].catalog = set.stored]
        /\ heap' = Collect(set.heap, cats')
        /\ result' = [Result("filter", c, set.status) EXCEPT
                         !.ret = c, !.stmt = Stmt(name, type, value)]

\* A filter that returns the catalog untouched where the code raises.
FilterSilent(c, name, type, value) ==
    /\ cats[c].state = "live"
    /\ IF FilterStatus(heap, cats[c], name, type) # "ok"
       THEN /\ cats' = cats
            /\ heap' = heap
            /\ result' = [Result("filter", c, "ok") EXCEPT
                             !.ret = c, !.stmt = Stmt(name, type, value)]
       ELSE FilterApply(c, name, type, value)
    /\ UNCHANGED <<loads, file, gen, handles, yielded>>

Filter(c, name, type, value) ==
    /\ cats[c].state = "live"
    /\ LET st == FilterStatus(heap, cats[c], name, type)
       IN  IF st # "ok"
           THEN /\ cats' = cats
                /\ heap' = heap
                /\ result' = [Result("filter", c, st) EXCEPT !.stmt = Stmt(name, type, value)]
           ELSE FilterApply(c, name, type, value)
    /\ UNCHANGED <<loads, file, gen, handles, yielded>>

(***************************************************************************)
(* Inputs: the caller's array and event list, what the remote search       *)
(* answers, constructor arguments and filter statements.                   *)
(***************************************************************************)
Event(id, s, m) == [id |-> id, time |-> Time(s), magnitude |-> m]

CallerEvents == <<Event("e1", 0, 30), Event("e2", 134219, 55)>>

RemoteOutcomes ==
    {NoRemote, [ok |-> TRUE, events |-> <<>>], [ok |-> TRUE, events |-> <<Event("e3", 60, 40)>>]}

CallerRows(mags) == [i \in 1 .. Len(mags) |-> [rupture_id |-> 10 * i, magnitude |-> mags[i]]]

MagSeqs == UNION {[1 .. n -> Mags] : n \in 0 .. MaxRows}

Supplied == [filename |-> "f.bin", catalog_id |-> "7", format |-> "native", name |-> "cat"]

\* Keyword arguments: the names in given carry a value, lazy_load defaults to TRUE.
Kw(given, meta, catalog, lazy_load) ==
    [given |-> given, filename |-> meta.filename, catalog_id |-> meta.catalog_id,
     format |-> meta.format, name |-> meta.name, catalog |-> catalog,
     lazy_load |-> lazy_load]

Kws ==
    {Kw(MetaNames \cup g, Supplied, r, l) :
        g \in {{}, {"catalog"}}, r \in {CallerArray, CallerList}, l \in BOOLEAN}

LazyKws == {kw \in Kws : kw.lazy_load}

Window(st, et, se, d) ==
    [start_time |-> st, end_time |-> et, start_epoch |-> se, duration_in_years |-> d]

CatWindows == {Window(Time(0), Time(60), NoNum, NoNum), Window(NoTime, Time(60), NoNum, NoNum)}

FilterNames == {"magnitude", "rupture_id", "depth"}
FilterTypes == Operators \cup {"!="}
Literals == {[int |-> 3, frac |-> 0], [int |-> 10, frac |-> 0]}

LoadIdle ==
    /\ file = [exists |-> FALSE, length |-> 0, count |-> 0, sizes |-> <<>>]
    /\ gen = [pc |-> "created", pos |-> 0, n |-> 0, k |-> 0, error |-> None]
    /\ handles = 0
    /\ yielded = <<>>

InitHeap(mags) ==
    [r \in Refs |->
        IF r = CallerArray THEN NdArray(event_dtype, CallerRows(mags))
        ELSE IF r = CallerList THEN List(CallerEvents)
        ELSE FreeObj]

InitCat ==
    /\ cats = [c \in Cats |-> NoCatalog]
    /\ \E mags \in MagSeqs : heap = InitHeap(mags)
    /\ loads = [c \in Cats |-> 0]
    /\ result = Result("none", None, "ok")
    /\ LoadIdle

(***************************************************************************)
(* SpecCat: one catalog; construction in both load modes, assignment,      *)
(* loading and reading.                                                    *)
(***************************************************************************)
NextCat ==
    \E c \in {"a"} :
        \/ \E kw \in Kws : CSEPInit(c, Without(kw, {"name"}))
        \/ \E kw \in Kws : UCERF3Init(c, kw)
        \/ \E a \in CatWindows, kw \in Kws, remote \in RemoteOutcomes :
              ComcatInit(c, a, kw, remote)
        \/ GetCatalog(c)
        \/ \E val \in {None, CallerArray, CallerList} : SetCatalog(c, val)
        \/ \E remote \in RemoteOutcomes : LoadCatalog(c, remote)
        \/ GetNumberOfEvents(c)

SpecCat == InitCat /\ [][NextCat]_vars

(***************************************************************************)
(* SpecFilter: one catalog; construction, filter and the two counts.       *)
(***************************************************************************)
NextFilter ==
    \E c \in {"a"} :
        \/ \E kw \in LazyKws : CSEPInit(c, Without(kw, {"name"}))
        \/ \E kw \in LazyKws : UCERF3Init(c, kw)
        \/ \E kw \in LazyKws : ComcatInit(c, Window(Time(0), Time(60), NoNum, NoNum),
                                           kw, NoRemote)
        \/ GetNumberOfEvents(c)
        \/ GetCumulativeNumberOfEvents(c)
        \/ \E name \in FilterNames, type \in FilterTypes, value \in Literals :
              Filter(c, name, type, value)

SpecFilter == InitCat /\ [][NextFilter]_vars

(***************************************************************************)
(* SpecShare: two catalogs constructed from the caller's one array, and    *)
(* filter on either.                                                       *)
(***************************************************************************)
ShareKws == {Kw(MetaNames \cup g, Supplied, CallerArray, TRUE) : g \in {{}, {"catalog"}}}

InitShare ==
    /\ cats = [c \in Cats |-> NoCatalog]
    /\ \E mags \in [1 .. MaxRows -> Mags] : heap = InitHeap(mags)
    /\ loads = [c \in Cats |-> 0]
    /\ result = Result("none", None, "ok")
    /\ LoadIdle

NextShare ==
    \E c \in Cats :
        \/ \E kw \in ShareKws : CSEPInit(c, Without(kw, {"name"}))
        \/ \E kw \in ShareKws : UCERF3Init(c, kw)
        \/ \E kw \in ShareKws : ComcatInit(c, Window(Time(0), Time(60), NoNum, NoNum),
                                            kw, NoRemote)
        \/ \E name \in {"magnitude", "depth"}, type \in {">=", "<"}, value \in Literals :
              Filter(c, name, type, value)

SpecShare == InitShare /\ [][NextShare]_vars

(***************************************************************************)
(* SpecComcat: construction of a ComcatCatalog over every way of giving    *)
(* the time window, in both load modes. Epoch times are whole seconds.     *)
(***************************************************************************)
StartTimes == {NoTime, Time(86400), Time(SecondsPerYear + 1)}
EndTimes == {NoTime, Time(86400), Time(SecondsPerYear)}
StartEpochs == {NoNum, Num(86400000), Num(90000000)}
Durations == {NoNum, Num(-1), Num(0), Num(1)}

Windows ==
    {Window(st, et, se, d) :
        st \in StartTimes, et \in EndTimes, se \in StartEpochs, d \in Durations}

ComcatKws == {Kw(MetaNames, Supplied, None, l) : l \in BOOLEAN}

InitComcat ==
    /\ cats = [c \in Cats |-> NoCatalog]
    /\ heap = InitHeap(<<30, 55>>)
    /\ loads = [c \in Cats |-> 0]
    /\ result = Result("none", None, "ok")
    /\ LoadIdle

NextComcat ==
    \E a \in Windows, kw \in ComcatKws, remote \in RemoteOutcomes :
        ComcatInit("a", a, kw, remote)

SpecComcat == InitComcat /\ [][NextComcat]_vars

(***************************************************************************)
(* SpecMeta: one catalog; construction of each variant with every choice   *)
(* of the four metadata keywords, with and without a record sequence, in   *)
(* both load modes.                                                        *)
(***************************************************************************)
MetaKws ==
    {Kw(g \cup r, Supplied, CallerArray, l) :
        g \in SUBSET MetaNames, r \in {{}, {"catalog"}}, l \in BOOLEAN}

InitMeta ==
    /\ cats = [c \in Cats |-> NoCatalog]
    /\ \E mags \in MagSeqs : heap = InitHeap(mags)
    /\ loads = [c \in Cats |-> 0]
    /\ result = Result("none", None, "ok")
    /\ LoadIdle

NextMeta ==
    \E c \in {"a"} :
        \/ \E kw \in MetaKws : CSEPInit(c, kw)
        \/ \E kw \in MetaKws : UCERF3Init(c, kw)
        \/ \E kw \in MetaKws, remote \in RemoteOutcomes :
              ComcatInit(c, Window(Time(0), Time(60), NoNum, NoNum), kw, remote)

SpecMeta == InitMeta /\ [][NextMeta]_vars

(***************************************************************************)
(* Properties of the catalogs.                                             *)
(***************************************************************************)
RowsOf(h, obj) == IF obj.catalog = None THEN <<>> ELSE h[obj.catalog].rows

Holds(x, type, v) ==
    \/ type = ">" /\ x > v
    \/ type = "<" /\ x < v
    \/ type = ">=" /\ ~(x < v)
    \/ type = "<=" /\ ~(x > v)
    \/ type = "==" /\ x = v

BoundArray(c) ==
    /\ cats[c].state = "live"
    /\ cats[c].catalog # None
    /\ heap[cats[c].catalog].kind = "ndarray"

\* C1: on a catalog bound to a record array, filter with a field of the schema and one
\* of the five operators leaves exactly the rows for which "field operator value" holds,
\* in their original order, in a record array of the same schema, raises nothing (also
\* when no row matches) and returns the catalog it was called on.
C1_FilterSelects ==
    [][(result'.op = "filter" /\ BoundArray(result'.cat)
        /\ result'.stmt.type \in Operators
        /\ result'.stmt.name \in heap[cats[result'.cat].catalog].dtype)
       => LET c == result'.cat
              st == result'.stmt
              old == heap[cats[c].catalog]
          IN  /\ result'.status = "ok"
              /\ result'.ret = c
              /\ cats'[c].catalog # None
              /\ heap'[cats'[c].catalog] =
                    NdArray(old.dtype,
                            SelectSeq(old.rows,
                                      LAMBDA r : Holds(r[st.name], st.type, Float(st.value))))
      ]_vars

\* A filter has kept the second and third of the caller's three rows.
C1_Witness ==
    /\ result.op = "filter" /\ result.status = "ok" /\ result.ret = "a"
    /\ Len(heap[CallerArray].rows) = 3
    /\ RowsOf(heap, cats["a"]) = SubSeq(heap[CallerArray].rows, 2, 3)

\* C4 as stated: when the record sequence of a catalog constructed without one in
\* deferred-load mode has just been accessed, its loading procedure has run exactly once.
C4_LoadedOnFirstAccess ==
    (result.op \in {"get", "count"} /\ cats[result.cat].deferred) => loads[result.cat] = 1

\* C5 as stated: whatever was assigned, the stored record sequence is None or a record
\* array, and the assignment completed.
C5_StoredCanonical ==
    /\ \A c \in Cats :
          cats[c].state = "live" =>
              (cats[c].catalog = None \/ heap[cats[c].catalog].kind = "ndarray")
    /\ result.op \in {"init", "set"} => result.status # "AttributeError"

\* C6: filter with an operator outside the table, or with a field that is not in the
\* schema of the bound record array, raises; it returns nothing and the catalog keeps
\* the record sequence it had.
C6_FilterRejects ==
    [][(/\ result'.op = "filter"
        /\ \/ result'.stmt.type \notin Operators
           \/ /\ BoundArray(result'.cat)
              /\ result'.stmt.name \notin heap[cats[result'.cat].catalog].dtype)
       => /\ result'.status =
                (IF result'.stmt.type \notin Operators THEN "KeyError" ELSE "ValueError")
          /\ result'.ret = None
          /\ cats'[result'.cat].catalog = cats[result'.cat].catalog
          /\ heap' = heap
      ]_vars

\* A filter on a field the bound record array does not have has been refused.
C6_Witness ==
    /\ result.op = "filter" /\ result.status = "ValueError"
    /\ BoundArray(result.cat)
    /\ heap[cats[result.cat].catalog].rows # <<>>

\* C9: get_number_of_events returns the number of rows held (0 when nothing is bound)
\* and get_cumulative_number_of_events returns 1, 2, ..., N for the N rows held, also
\* after filter calls.
C9_Counts ==
    /\ result.op = "count" =>
          result.num = Cardinality(DOMAIN RowsOf(heap, cats[result.cat]))
    /\ result.op = "cumulative" =>
          /\ Len(result.seq) = Cardinality(DOMAIN RowsOf(heap, cats[result.cat]))
          /\ \A i \in DOMAIN result.seq : result.seq[i] = i

\* The running count 1, 2 of a catalog that a filter has cut from three rows to two.
C9_Witness ==
    /\ result.op = "cumulative" /\ result.seq = <<1, 2>>
    /\ Len(heap[CallerArray].rows) = 3
    /\ cats[result.cat].catalog \notin {None, CallerArray, CallerList}

\* C10: a filter call changes, of the catalog it is called on, the record sequence
\* only; every other catalog is as it was and holds the rows it held, the caller's
\* array among them.
C10_FilterFrame ==
    [][result'.op = "filter"
       => LET c == result'.cat
          IN  /\ [cats'[c] EXCEPT !.catalog = cats[c].catalog] = cats[c]
              /\ \A d \in Cats \ {c} :
                    /\ cats'[d] = cats[d]
                    /\ RowsOf(heap', cats'[d]) = RowsOf(heap, cats[d])
              /\ heap'[CallerArray] = heap[CallerArray]
              /\ heap'[CallerList] = heap[CallerList]
      ]_vars

\* Two catalogs were constructed from the caller's array; one has been filtered down,
\* the other still references the caller's array.
C10_Witness ==
    /\ result.op = "filter" /\ result.status = "ok"
    /\ \E d \in Cats \ {result.cat} :
          /\ cats[d].state = "live" /\ cats[d].catalog = CallerArray
          /\ cats[result.cat].catalog \notin {None, CallerArray}
          /\ Len(RowsOf(heap, cats[result.cat])) < Len(RowsOf(heap, cats[d]))

(***************************************************************************)
(* Properties of the ComcatCatalog time window.                            *)
(***************************************************************************)
HasStart(a) == a.start_time.some \/ a.start_epoch.some

HasEnd(a) == a.end_time.some \/ a.duration_in_years.some

\* dt is the start the arguments resolve to: start_time, else the instant of start_epoch.
IsStart(a, dt) ==
    /\ dt.some
    /\ IF a.start_time.some THEN dt = a.start_time
       ELSE /\ a.start_epoch.some
            /\ a.start_epoch.v % MillisPerSecond = 0
            /\ a.start_epoch.v \div MillisPerSecond = dt.s

\* dt is the end the arguments resolve to: end_time, else start plus the duration.
IsEnd(a, start, dt) ==
    /\ dt.some
    /\ IF a.end_time.some THEN dt = a.end_time
       ELSE a.duration_in_years.some
            /\ dt.s - start.s = a.duration_in_years.v * SecondsPerYear

Instants == {Time(s) : s \in {-SecondsPerYear, 0, 86400, 90000, SecondsPerYear,
                               SecondsPerYear + 1, SecondsPerYear + 86400,
                               SecondsPerYear + 90000, 2 * SecondsPerYear + 1,
                               -SecondsPerYear + 86400, -SecondsPerYear + 90000}}

ValidWindow(a) ==
    /\ HasStart(a) /\ HasEnd(a)
    /\ \E start, end \in Instants :
          IsStart(a, start) /\ IsEnd(a, start, end) /\ start.s <= end.s

ComcatCall == result'.op = "init" /\ result'.args.variant = "Comcat"

\* C7 as stated: the construction fails with a validation error, before any remote
\* query, exactly when no start is given, no end is given or the resolved start is later
\* than the resolved end, and succeeds otherwise with the window resolved.
C7_WindowDecides ==
    [][ComcatCall
       => LET a == result'.args
              c == result'.cat
          IN  IF ValidWindow(a)
              THEN /\ result'.status = "ok"
                   /\ cats'[c].state = "live"
                   /\ IsStart(a, cats'[c].start_time)
                   /\ IsEnd(a, cats'[c].start_time, cats'[c].end_time)
              ELSE /\ result'.status = "ValueError"
                   /\ loads' = loads /\ heap' = heap /\ cats' = cats
      ]_vars

\* C7 amended: as stated, except that in eager mode (lazy_load false) a construction
\* with a valid window runs the remote query and fails with the remote error if the
\* query fails.
C7_WindowDecidesUnlessRemoteFails ==
    [][ComcatCall
       => LET a == result'.args
              c == result'.cat
          IN  IF ValidWindow(a)
              THEN IF a.lazy_load \/ a.remote_ok
                   THEN /\ result'.status = "ok"
                        /\ cats'[c].state = "live"
                        /\ IsStart(a, cats'[c].start_time)
                        /\ IsEnd(a, cats'[c].start_time, cats'[c].end_time)
                        /\ loads'[c] = loads[c] + (IF a.lazy_load THEN 0 ELSE 1)
                   ELSE /\ result'.status = "ExternalServiceError"
                        /\ loads'[c] = loads[c] + 1
                        /\ cats' = cats
              ELSE /\ result'.status = "ValueError"
                   /\ loads' = loads /\ heap' = heap /\ cats' = cats
      ]_vars

\* A start epoch and a duration of one year were given and the catalog was constructed.
C7_Witness ==
    /\ result.op = "init" /\ result.status = "ok"
    /\ result.args.variant = "Comcat"
    /\ ~result.args.start_time.some /\ ~result.args.end_time.some
    /\ result.args.start_epoch = Num(86400000)
    /\ result.args.duration_in_years = Num(1)
    /\ cats[result.cat].start_time = Time(86400)
    /\ cats[result.cat].end_time = Time(SecondsPerYear + 86400)

(***************************************************************************)
(* Identity metadata after construction.                                   *)
(***************************************************************************)
\* The default a variant's constructor declares for a metadata keyword.
DeclaredDefault(variant, f) ==
    IF variant = "Comcat" /\ f = "catalog_id" THEN "Comcat"
    ELSE IF variant = "CSEP" /\ f = "format" THEN "CSEP"
    ELSE None

\* C11: immediately after a successful construction of any variant, each of the four
\* identity metadata fields (filename, catalog_id, name, format) equals the value the
\* caller supplied, or the constructor's declared default where none was supplied
\* ('Comcat' for ComcatCatalog's catalog_id, 'CSEP' for CSEPCatalog's format).
C11_IdentityHeld ==
    (result.op = "init" /\ result.status = "ok")
       => \A f \in MetaNames :
             cats[result.cat][f] =
                IF result.args.supplied[f] # Unset THEN result.args.supplied[f]
                ELSE DeclaredDefault(result.args.variant, f)

(***************************************************************************)
(* UCERF3Catalog.load_catalogs: a generator over a merged binary file.     *)
(* The file is its declared content (the count, each catalog's declared    *)
(* size) and the number of bytes actually present.                         *)
(***************************************************************************)
CountBytes == 4
HeaderBytes == 6
EventBytes == 68

Min(a, b) == IF a < b THEN a ELSE b

RECURSIVE CatalogStart(_, _)
\* The byte at which the header of the catalog at index k starts.
CatalogStart(sizes, k) ==
    IF k = 0 THEN CountBytes
    ELSE CatalogStart(sizes, k - 1) + HeaderBytes + sizes[k] * EventBytes

FullLength(sizes) == CatalogStart(sizes, Len(sizes))

\* The j-th event record written for the catalog at index k.
Record(k, j) == [rupture_id |-> 10 * j, magnitude |-> 30 + k]

\* numpy.fromfile: the number of whole items read, at most count, from position pos.
FromFile(pos, itemsize, count) == Min(count, (file.length - pos) \div itemsize)

RowsOfYield(out) == IF out.obj.catalog = None THEN <<>> ELSE out.heap[out.obj.catalog].rows

\* The catalog constructed from the rows read, tagged with id.
YieldedAs(id, rows) ==
    LET h == [[r \in Refs |-> FreeObj] EXCEPT ![Fresh[1]] = NdArray(event_dtype, rows)]
        kw == [given |-> {"filename", "catalog", "catalog_id"}, filename |-> "merged.bin",
               catalog_id |-> id, format |-> None, name |-> None, catalog |-> Fresh[1],
               lazy_load |-> TRUE]
        out == BaseInitOut(h, New("UCERF3"), kw, NoRemote)
    IN  [obj |-> [out.obj EXCEPT !.state = "live"], rows |-> RowsOfYield(out)]

\* Catalogs numbered from one.
YieldedOneBased(k, rows) == YieldedAs(k + 1, rows)

\* The catalog load_catalogs constructs for index k: catalog_id is the loop index.
Yielded(k, rows) == YieldedAs(k, rows)

\* Leaving the block without closing the file.
WithExitLeak(h) == h

\* Close the file on leaving the with block.
WithExit(h) == h - 1

\* One pass of the loop for index k with the stream at pos: up to the yield, the end of
\* the range, or the exception.
Iteration(n, k, pos) ==
    IF k >= n
    THEN [pc |-> "done", pos |-> pos, error |-> None, rows |-> <<>>]
    ELSE IF FromFile(pos, HeaderBytes, 1) = 0
    THEN [pc |-> "failed", pos |-> file.length, error |-> "IndexError", rows |-> <<>>]
    ELSE LET size == file.sizes[k + 1]
             at == pos + HeaderBytes
             nread == FromFile(at, EventBytes, size)
         IN  [pc |-> "suspended",
              pos |-> IF nread < size THEN file.length ELSE at + nread * EventBytes,
              error |-> None,
              rows |-> [j \in 1 .. nread |-> Record(k, j)]]

Advance(n, k, it) ==
    /\ gen' = [pc |-> it.pc, pos |-> it.pos, n |-> n, k |-> k, error |-> it.error]
    /\ yielded' = IF it.pc = "suspended" THEN Append(yielded, Yielded(k, it.rows))
                  ELSE yielded
    /\ handles' = LET open == IF gen.pc = "created" THEN handles + 1 ELSE handles
                  IN  IF it.pc = "suspended" THEN open ELSE WithExit(open)

\* next() on the generator.
GenNext ==
    /\ gen.pc \in {"created", "suspended"}
    /\ IF gen.pc = "suspended"
       THEN Advance(gen.n, gen.k + 1, Iteration(gen.n, gen.k + 1, gen.pos))
       ELSE IF ~file.exists
       THEN /\ gen' = [gen EXCEPT !.pc = "failed", !.error = "FileNotFoundError"]
            /\ UNCHANGED <<handles, yielded>>
       ELSE IF FromFile(0, CountBytes, 1) = 0
       THEN /\ gen' = [gen EXCEPT !.pc = "failed", !.error = "IndexError",
                                  !.pos = file.length]
            /\ handles' = WithExit(handles + 1)
            /\ UNCHANGED yielded
       ELSE Advance(file.count, 0, Iteration(file.count, 0, CountBytes))
    /\ UNCHANGED <<cats, heap, loads, result, file>>

\* The caller drops the generator: close() or finalization raises GeneratorExit at the
\* yield, which leaves the with block.
GenClose ==
    /\ gen.pc \in {"created", "suspended"}
    /\ gen' = [gen EXCEPT !.pc = "closed"]
    /\ handles' = IF gen.pc = "suspended" THEN WithExit(handles) ELSE handles
    /\ UNCHANGED <<cats, heap, loads, result, file, yielded>>

SizeSeqs == UNION {[1 .. n -> 0 .. MaxSize] : n \in 0 .. MaxSims}

\* Where an item of the file starts or the file ends.
Boundaries(sizes) ==
    {0} \cup {CatalogStart(sizes, k) : k \in 0 .. Len(sizes)}
        \cup UNION {{CatalogStart(sizes, k - 1) + HeaderBytes + j * EventBytes :
                       j \in 0 .. sizes[k]} : k \in 1 .. Len(sizes)}

\* The file whole, cut at the start of an item, or cut one byte into an item.
Lengths(sizes) ==
    {l \in Boundaries(sizes) \cup {b + 1 : b \in Boundaries(sizes)} : l <= FullLength(sizes)}

InitLoad ==
    /\ cats = [c \in Cats |-> NoCatalog]
    /\ heap = [r \in Refs |-> FreeObj]
    /\ loads = [c \in Cats |-> 0]
    /\ result = Result("none", None, "ok")
    /\ \E sizes \in SizeSeqs, exists \in BOOLEAN :
          \E length \in (IF exists THEN Lengths(sizes) ELSE {0}) :
              file = [exists |-> exists, length |-> length, count |-> Len(sizes),
                      sizes |-> sizes]
    /\ gen = [pc |-> "created", pos |-> 0, n |-> 0, k |-> 0, error |-> None]
    /\ handles = 0
    /\ yielded = <<>>

NextLoad == GenNext \/ GenClose

SpecLoad == InitLoad /\ [][NextLoad]_vars

\* The caller of a started iteration goes on with it or drops it.
FairSpecLoad == SpecLoad /\ WF_vars(NextLoad)

(***************************************************************************)
(* Properties of load_catalogs.                                            *)
(***************************************************************************)
WellFormed == file.exists /\ file.length = FullLength(file.sizes)

Truncated == file.exists /\ file.length < FullLength(file.sizes)

\* C2: on a well-formed file declaring n catalogs, load_catalogs yields one catalog per
\* step, the k-th with catalog_id k and exactly the rows its header declares, in file
\* order, never fails, and has yielded exactly n when it is exhausted.
C2_YieldsDeclared ==
    WellFormed =>
        /\ gen.pc # "failed"
        /\ Len(yielded) <= file.count
        /\ gen.pc = "suspended" => Len(yielded) = gen.k + 1
        /\ gen.pc = "done" => Len(yielded) = file.count
        /\ \A i \in 1 .. Len(yielded) :
              /\ yielded[i].obj.catalog_id = i - 1
              /\ Len(yielded[i].rows) = file.sizes[i]
              /\ \A j \in 1 .. Len(yielded[i].rows) :
                    yielded[i].rows[j] = Record(i - 1, j)

\* A whole file of two catalogs, of one and two rows, has been read to its end.
C2_Witness ==
    /\ WellFormed /\ gen.pc = "done"
    /\ file.sizes = <<1, 2>>
    /\ Len(yielded) = 2

\* C3 as stated: on a truncated file no catalog is yielded with fewer rows than its
\* header declares, and the iteration does not end without raising.
C3_TruncationRaises ==
    Truncated =>
        /\ \A i \in 1 .. Len(yielded) : Len(yielded[i].rows) = file.sizes[i]
        /\ gen.pc # "done"

HandleInv ==
    /\ handles \in {0, 1}
    /\ handles = 1 <=> gen.pc = "suspended"

\* C8: at most one file handle is open; it is open exactly while the iteration is
\* suspended at a yield, and it is closed when the iteration is exhausted, has raised
\* or has been dropped by the caller; a handle that is open is eventually closed.
C8_HandleReleased == []HandleInv /\ ((handles = 1) ~> (handles = 0))

\* The caller dropped the iteration after the first of two catalogs; the file is closed.
C8_Witness ==
    /\ gen.pc = "closed" /\ Len(yielded) = 1 /\ file.count = 2 /\ handles = 0

====
